---- MODULE Spec2Model ----
(***************************************************************************)
(* The entitlement / quota engine of app.py: the per-session record held   *)
(* in the Flask session (pro, credits, runs), the helpers that read and    *)
(* write it, and the routes /health, GET /, POST /upload,                   *)
(* POST /create-checkout-session and POST /webhook.                        *)
(***************************************************************************)
EXTENDS Integers, Sequences, FiniteSets, TLC

\* ------------------------------------------------------------- bounds
\* The clock runs over 0..MaxTime.
MaxTime == 3
\* The credit balance explored is at most MaxCredits.
MaxCredits == 2
\* At most MaxFree free admissions are logged in one behaviour.
MaxFree == 12
\* At most MaxGrants credit grants are counted in one behaviour.
MaxGrants == 2
\* A success redirect is replayed up to MaxReplays times.
MaxReplays == 2

\* ------------------------------------------------- program constants
\* session["runs"] = ts[-10:]
MaxStoredRuns == 10

\* Environment values the configuration is drawn from.
LimitChoices == {0, 1, 2}
LargeLimitChoices == {MaxStoredRuns + 1}
WindowChoices == {0, 1}
PackChoices == {-1, 0, 2}
\* Price references: "" is the unset default.
SubscriptionPriceChoices == {"", "price_sub"}
CreditsPriceChoices == {"", "price_credits"}
OneTimePriceChoices == {"", "price_once"}
PackPriceChoices == {9}

VARIABLES
    FREE_RUNS_PER_WINDOW,   \* int(os.getenv("FREE_RUNS_PER_WINDOW", "1"))
    FREE_WINDOW_SECONDS,    \* int(os.getenv("FREE_WINDOW_SECONDS", "3600"))
    CREDITS_PER_PACK,       \* int(os.getenv("CREDITS_PER_PACK", "10"))
    GEMINI_API_KEY,         \* TRUE when the credential is configured
    STRIPE_SECRET_KEY,      \* TRUE when the credential is configured
    STRIPE_WEBHOOK_SECRET,  \* TRUE when the signing secret is configured
    STRIPE_PRICE_ID_SUBSCRIPTION,
    STRIPE_PRICE_ID_CREDITS,
    STRIPE_PRICE_ID_ONE_TIME,
    CREDITS_PACK_PRICE_USD, \* int(os.getenv("CREDITS_PACK_PRICE_USD", "9"))
    session,                \* the browser session: [pro, credits, runs]
    now,                    \* the clock, int(time.time())
    resp,                   \* the response to the request handled by the last step
    freeLog,                \* history: the times free admissions were recorded at
    ledger,                 \* history: credit grants applied, credit admissions
    inflight                \* per browser tab, the request being handled

stripe_config ==
    <<STRIPE_SECRET_KEY, STRIPE_WEBHOOK_SECRET, STRIPE_PRICE_ID_SUBSCRIPTION,
      STRIPE_PRICE_ID_CREDITS, STRIPE_PRICE_ID_ONE_TIME, CREDITS_PACK_PRICE_USD>>
config ==
    <<FREE_RUNS_PER_WINDOW, FREE_WINDOW_SECONDS, CREDITS_PER_PACK, GEMINI_API_KEY,
      stripe_config>>
vars == <<config, session, now, resp, freeLog, ledger, inflight>>

\* --------------------------------------------------------- pure helpers
max(a, b) == IF a >= b THEN a ELSE b

\* Python's ts[-k:]
LastK(ts, k) == IF Len(ts) <= k THEN ts ELSE SubSeq(ts, Len(ts) - k + 1, Len(ts))

\* Python's str.startswith, strings being sequences of characters
startswith(str, prefix) ==
    /\ Len(str) >= Len(prefix)
    /\ SubSeq(str, 1, Len(prefix)) = prefix

\* Python's str.strip, strings being sequences of characters
Whitespace == {" ", "\t", "\n"}

RECURSIVE lstrip(_)
lstrip(str) ==
    IF str # << >> /\ Head(str) \in Whitespace THEN lstrip(Tail(str)) ELSE str

RECURSIVE rstrip(_)
rstrip(str) ==
    IF str # << >> /\ str[Len(str)] \in Whitespace
    THEN rstrip(SubSeq(str, 1, Len(str) - 1)) ELSE str

strip(str) == rstrip(lstrip(str))

\* The number of entries of ts with value in lo..hi.
CountIn(ts, lo, hi) == Cardinality({i \in 1..Len(ts) : ts[i] >= lo /\ ts[i] <= hi})

\* The browser tabs that may have a request under way at the same time.
Tabs == {1, 2}

\* A new visitor's session: every session.get falls back to its default.
NewSession == [pro |-> FALSE, credits |-> 0, runs |-> << >>]

\* ------------------------------------------------------ session helpers
_is_pro(s) == s.pro

_get_credits(s) == s.credits

\* Mutation of _add_credits: the pack size is added without the max(0, .) clamp.
_add_credits_unclamped(s, n) == [s EXCEPT !.credits = _get_credits(s) + n]

\* Mutation of _add_credits: the magnitude of the pack size is added.
_add_credits_magnitude(s, n) == [s EXCEPT !.credits = _get_credits(s) + max(n, 0 - n)]

_add_credits(s, n) == [s EXCEPT !.credits = _get_credits(s) + max(0, n)]

\* Mutation of _consume_credit: the guard is cur > 1, the last credit is never spent.
_consume_credit_keep_last(s) ==
    LET cur == _get_credits(s)
    IN  IF cur > 1 THEN [s EXCEPT !.credits = cur - 1] ELSE s

\* Returns the session; the boolean result of the source is never used.
_consume_credit(s) ==
    LET cur == _get_credits(s)
    IN  IF cur > 0 THEN [s EXCEPT !.credits = cur - 1] ELSE s

\* Mutation of _runs_within_window: the length returned is that of the unfiltered list.
_runs_within_window_stale(s, t, window) ==
    LET cutoff == t - window
        ts == SelectSeq(s.runs, LAMBDA x : x >= cutoff)
    IN  [session |-> [s EXCEPT !.runs = ts], count |-> Len(s.runs)]

\* Mutation of _runs_within_window: the comparison is t > cutoff.
_runs_within_window_strict(s, t, window) ==
    LET cutoff == t - window
        ts == SelectSeq(s.runs, LAMBDA x : x > cutoff)
    IN  [session |-> [s EXCEPT !.runs = ts], count |-> Len(ts)]

\* [session, count]: the pruned list is stored back, its length returned.
_runs_within_window(s, t, window) ==
    LET cutoff == t - window
        ts == SelectSeq(s.runs, LAMBDA x : x >= cutoff)
    IN  [session |-> [s EXCEPT !.runs = ts], count |-> Len(ts)]

\* [session, remaining]
_remaining_free_runs(s, t, window, limit) ==
    LET r == _runs_within_window(s, t, window)
    IN  [session |-> r.session, remaining |-> max(0, limit - r.count)]

_record_free_run(s, t) ==
    [s EXCEPT !.runs = LastK(Append(s.runs, t), MaxStoredRuns)]

\* ------------------------------------------------------------ requests
\* Plan identifiers, as the character sequences str.startswith reads.
PlanSubscription == <<"s", "u", "b", "s", "c", "r", "i", "p", "t", "i", "o", "n">>
PlanOneTime == <<"o", "n", "e", "_", "t", "i", "m", "e">>
PlanCredits10 == <<"c", "r", "e", "d", "i", "t", "s", "1", "0">>
PlanCredits == <<"c", "r", "e", "d", "i", "t", "s">>
PlanCredit == <<"c", "r", "e", "d", "i", "t">>
PlanBogus == <<"b", "o", "g", "u", "s">>
PlanEmpty == << >>
PrefixCredits == <<"c", "r", "e", "d", "i", "t", "s">>
PlanBlank == <<" ">>
PlanPaddedOneTime == <<" ", "o", "n", "e", "_", "t", "i", "m", "e">>
PlanPaddedBogus == <<"b", "o", "g", "u", "s", " ">>
PlanCreditsAmp == <<"c", "r", "e", "d", "i", "t", "s", "&", "x">>
PlanUpper == <<"S", "u", "b", "s", "c", "r", "i", "p", "t", "i", "o", "n">>
Plans == {PlanSubscription, PlanOneTime, PlanCredits10, PlanCredits, PlanCredit,
          PlanBogus, PlanEmpty}

\* What the plan field of the checkout form may hold; a missing field reads as "".
CheckoutPlans ==
    Plans \cup {PlanBlank, PlanPaddedOneTime, PlanPaddedBogus, PlanCreditsAmp, PlanUpper}

\* What stripe.checkout.Session.create does: a session with its url, an exception.
StripeOutcomes == {"session", "raise"}

\* What stripe.Webhook.construct_event does with the Stripe-Signature header.
Signatures == {"valid", "invalid", "missing"}

EventTypes == {"checkout.session.completed", "other"}

\* What request.files.get("csv_file") and pd.read_csv meet:
\*   none        no file part in the form
\*   utf8        a table that reads as UTF-8
\*   latin1      UnicodeDecodeError, then a table under latin-1
\*   latin1_bad  UnicodeDecodeError, then the latin-1 read raises
\*   unreadable  any other exception of read_csv
\*   empty       a table that reads and has no rows
Files == {"none", "utf8", "latin1", "latin1_bad", "unreadable", "empty"}

\* What model.generate_content does: text, a response without text, an exception.
AiOutcomes == {"text", "none", "raise"}

\* The arguments of stripe.checkout.Session.create that depend on the plan.
NoCheckout ==
    [called |-> FALSE, mode |-> "none", item |-> "none", price |-> "",
     amount |-> 0, quantity |-> 0, plan |-> << >>]

NoResp ==
    [route |-> "none", status |-> 0, location |-> "", path |-> "none",
     decoded |-> FALSE, ai_called |-> FALSE, output |-> "",
     grant |-> "none", pro |-> FALSE, credits |-> 0, remaining |-> -1,
     error |-> "", form_plan |-> << >>, checkout |-> NoCheckout,
     sig |-> "none", verified |-> FALSE, body_ran |-> FALSE]

\* ------------------------------------------------------------- AI core
\* [output, called]
run_gemini(key, ai) ==
    IF ~key
    THEN [output |-> "Gemini API key not configured", called |-> FALSE]
    ELSE CASE ai = "text"  -> [output |-> "text", called |-> TRUE]
           [] ai = "none"  -> [output |-> "No response from Gemini.", called |-> TRUE]
           [] ai = "raise" -> [output |-> "Gemini error", called |-> TRUE]

\* -------------------------------------------------------------- routes
\* Mutation of upload_gate: credits are consumed before pro is looked at.
upload_gate_credits_first(s, tCheck, tRecord) ==
    IF _get_credits(s) > 0
    THEN [session |-> _consume_credit(s), path |-> IF _is_pro(s) THEN "pro" ELSE "credit"]
    ELSE IF _is_pro(s)
    THEN [session |-> s, path |-> "pro"]
    ELSE LET r == _remaining_free_runs(s, tCheck, FREE_WINDOW_SECONDS,
                                       FREE_RUNS_PER_WINDOW)
         IN  IF r.remaining <= 0
             THEN [session |-> r.session, path |-> "denied"]
             ELSE [session |-> _record_free_run(r.session, tRecord), path |-> "free"]

\* Mutation of upload_gate: the free window is tried before the credits.
upload_gate_free_first(s, tCheck, tRecord) ==
    IF ~_is_pro(s)
    THEN LET r == _remaining_free_runs(s, tCheck, FREE_WINDOW_SECONDS,
                                       FREE_RUNS_PER_WINDOW)
         IN  IF r.remaining > 0
             THEN [session |-> _record_free_run(r.session, tRecord), path |-> "free"]
             ELSE IF _get_credits(s) > 0
             THEN [session |-> _consume_credit(r.session), path |-> "credit"]
             ELSE [session |-> r.session, path |-> "denied"]
    ELSE [session |-> s, path |-> "pro"]

\* Mutation of upload_gate: the credit branch is taken at a balance >= 0.
upload_gate_ge(s, tCheck, tRecord) ==
    IF ~_is_pro(s)
    THEN IF _get_credits(s) >= 0
         THEN [session |-> _consume_credit(s), path |-> "credit"]
         ELSE LET r == _remaining_free_runs(s, tCheck, FREE_WINDOW_SECONDS,
                                            FREE_RUNS_PER_WINDOW)
              IN  IF r.remaining <= 0
                  THEN [session |-> r.session, path |-> "denied"]
                  ELSE [session |-> _record_free_run(r.session, tRecord),
                        path |-> "free"]
    ELSE [session |-> s, path |-> "pro"]

\* The gate of /upload: pro -> allowed; else credits -> consume; else the free window.
\* tCheck is _now() in _runs_within_window, tRecord is _now() in _record_free_run.
upload_gate(s, tCheck, tRecord) ==
    IF ~_is_pro(s)
    THEN IF _get_credits(s) > 0
         THEN [session |-> _consume_credit(s), path |-> "credit"]
         ELSE LET r == _remaining_free_runs(s, tCheck, FREE_WINDOW_SECONDS,
                                            FREE_RUNS_PER_WINDOW)
              IN  IF r.remaining <= 0
                  THEN [session |-> r.session, path |-> "denied"]
                  ELSE [session |-> _record_free_run(r.session, tRecord),
                        path |-> "free"]
    ELSE [session |-> s, path |-> "pro"]

\* pd.read_csv with the latin-1 retry, then df.empty.
read_table(file) ==
    CASE file = "utf8"       -> "table"
      [] file = "latin1"     -> "table"
      [] file = "latin1_bad" -> "raise"
      [] file = "unreadable" -> "abort400"
      [] file = "empty"      -> "abort400"

\* Mutation of upload: a failed decode or completion hands back the session as it was.
upload_refund(s, tCheck, tRecord, file, ai) ==
    LET g == upload_gate(s, tCheck, tRecord)
        base == [NoResp EXCEPT !.route = "upload", !.path = g.path]
    IN  IF g.path = "denied"
        THEN [session |-> g.session,
              resp |-> [base EXCEPT !.status = 302, !.location = "home?limit=true"]]
        ELSE IF file = "none"
        THEN [session |-> g.session,
              resp |-> [base EXCEPT !.status = 302, !.location = "home"]]
        ELSE LET t == read_table(file)
             IN  IF t = "abort400"
                 THEN [session |-> s,
                       resp |-> [base EXCEPT !.status = 400, !.decoded = TRUE]]
                 ELSE IF t = "raise"
                 THEN [session |-> s,
                       resp |-> [base EXCEPT !.status = 500, !.decoded = TRUE]]
                 ELSE LET a == run_gemini(GEMINI_API_KEY, ai)
                          s2 == IF a.output = "Gemini error" THEN s ELSE g.session
                      IN  [session |-> s2,
                           resp |-> [base EXCEPT !.status = 200, !.decoded = TRUE,
                                                 !.ai_called = a.called,
                                                 !.output = a.output,
                                                 !.pro = _is_pro(s2),
                                                 !.credits = _get_credits(s2)]]

\* Mutation of upload: a denial is answered 429 after the file was read.
upload_denied_late(s, tCheck, tRecord, file, ai) ==
    LET g == upload_gate(s, tCheck, tRecord)
        base == [NoResp EXCEPT !.route = "upload", !.path = g.path]
    IN  IF file = "none"
        THEN [session |-> g.session,
              resp |-> [base EXCEPT !.status = 302, !.location = "home"]]
        ELSE LET t == read_table(file)
             IN  IF t = "abort400"
                 THEN [session |-> g.session,
                       resp |-> [base EXCEPT !.status = 400, !.decoded = TRUE]]
                 ELSE IF t = "raise"
                 THEN [session |-> g.session,
                       resp |-> [base EXCEPT !.status = 500, !.decoded = TRUE]]
                 ELSE IF g.path = "denied"
                 THEN [session |-> g.session,
                       resp |-> [base EXCEPT !.status = 429, !.decoded = TRUE]]
                 ELSE LET a == run_gemini(GEMINI_API_KEY, ai)
                      IN  [session |-> g.session,
                           resp |-> [base EXCEPT !.status = 200, !.decoded = TRUE,
                                                 !.ai_called = a.called,
                                                 !.output = a.output,
                                                 !.pro = _is_pro(g.session),
                                                 !.credits = _get_credits(g.session)]]

\* POST /upload: [session, resp].
upload(s, tCheck, tRecord, file, ai) ==
    LET g == upload_gate(s, tCheck, tRecord)
        base == [NoResp EXCEPT !.route = "upload", !.path = g.path]
    IN  IF g.path = "denied"
        THEN [session |-> g.session,
              resp |-> [base EXCEPT !.status = 302, !.location = "home?limit=true"]]
        ELSE IF file = "none"
        THEN [session |-> g.session,
              resp |-> [base EXCEPT !.status = 302, !.location = "home"]]
        ELSE LET t == read_table(file)
             IN  IF t = "abort400"
                 THEN [session |-> g.session,
                       resp |-> [base EXCEPT !.status = 400, !.decoded = TRUE]]
                 ELSE IF t = "raise"
                 THEN [session |-> g.session,
                       resp |-> [base EXCEPT !.status = 500, !.decoded = TRUE]]
                 ELSE LET a == run_gemini(GEMINI_API_KEY, ai)
                      IN  [session |-> g.session,
                           resp |-> [base EXCEPT !.status = 200, !.decoded = TRUE,
                                                 !.ai_called = a.called,
                                                 !.output = a.output,
                                                 !.pro = _is_pro(g.session),
                                                 !.credits = _get_credits(g.session)]]

\* Mutation of health: the stored timestamps are cleared, stale or not.
health_drops_all(s, t) ==
    LET r == _remaining_free_runs(s, t, FREE_WINDOW_SECONDS, FREE_RUNS_PER_WINDOW)
    IN  [session |-> [r.session EXCEPT !.runs = << >>],
         resp |-> [NoResp EXCEPT !.route = "health", !.status = 200,
                                 !.pro = _is_pro(s), !.credits = _get_credits(s),
                                 !.remaining = r.remaining]]

\* Mutation of health: reading the status costs a credit.
health_charges(s, t) ==
    LET r == _remaining_free_runs(s, t, FREE_WINDOW_SECONDS, FREE_RUNS_PER_WINDOW)
    IN  [session |-> _consume_credit(r.session),
         resp |-> [NoResp EXCEPT !.route = "health", !.status = 200,
                                 !.pro = _is_pro(s), !.credits = _get_credits(s),
                                 !.remaining = r.remaining]]

\* GET /health: [session, resp].
health(s, t) ==
    LET r == _remaining_free_runs(s, t, FREE_WINDOW_SECONDS, FREE_RUNS_PER_WINDOW)
    IN  [session |-> r.session,
         resp |-> [NoResp EXCEPT !.route = "health", !.status = 200,
                                 !.pro = _is_pro(s), !.credits = _get_credits(s),
                                 !.remaining = r.remaining]]

\* Which branch of the grant a plan identifier takes.
grant_kind(plan) ==
    IF plan \in {PlanSubscription, PlanOneTime} THEN "pro"
    ELSE IF startswith(plan, PrefixCredits) THEN "credits"
    ELSE "noop"

\* Mutation of grant: only the plan "credits" itself is taken for a credit pack.
grant_exact_credits(s, plan) ==
    IF plan \in {PlanSubscription, PlanOneTime}
    THEN [s EXCEPT !.pro = TRUE]
    ELSE IF plan = PrefixCredits
    THEN _add_credits(s, CREDITS_PER_PACK)
    ELSE s

\* Mutation of grant: buying a credit pack switches the session to the credit plan.
grant_switch_plan(s, plan) ==
    IF plan \in {PlanSubscription, PlanOneTime}
    THEN [s EXCEPT !.pro = TRUE]
    ELSE IF startswith(plan, PrefixCredits)
    THEN [_add_credits(s, CREDITS_PER_PACK) EXCEPT !.pro = FALSE]
    ELSE s

\* The grant applied by GET / on a success redirect.
grant(s, plan) ==
    IF plan \in {PlanSubscription, PlanOneTime}
    THEN [s EXCEPT !.pro = TRUE]
    ELSE IF startswith(plan, PrefixCredits)
    THEN _add_credits(s, CREDITS_PER_PACK)
    ELSE s

\* GET /: [session, resp].
home(s, t, success, plan) ==
    LET s1 == IF success THEN grant(s, plan) ELSE s
        r == _remaining_free_runs(s1, t, FREE_WINDOW_SECONDS, FREE_RUNS_PER_WINDOW)
    IN  [session |-> r.session,
         resp |-> [NoResp EXCEPT !.route = "home", !.status = 200,
                                 !.grant = IF success THEN grant_kind(plan) ELSE "none",
                                 !.pro = _is_pro(s1), !.credits = _get_credits(s1),
                                 !.remaining = r.remaining]]

\* ----------------------------------------------------- stripe checkout
\* plan = request.form.get("plan", "").strip() or "subscription"
submitted_plan(form_plan) ==
    LET p == strip(form_plan) IN IF p = << >> THEN PlanSubscription ELSE p

\* Mutation of session_args: a plan that matches nothing is sold as the one-time plan.
session_args_lenient(plan) ==
    LET priced(mode, id) ==
            [NoCheckout EXCEPT !.mode = mode, !.item = "price", !.price = id,
                               !.quantity = 1]
        adhoc(amount) ==
            [NoCheckout EXCEPT !.mode = "payment", !.item = "price_data",
                               !.amount = amount, !.quantity = 1]
        accept(a) == [ok |-> TRUE, error |-> "", args |-> a]
        reject(e) == [ok |-> FALSE, error |-> e, args |-> NoCheckout]
    IN  IF plan = PlanSubscription
        THEN IF STRIPE_PRICE_ID_SUBSCRIPTION # ""
             THEN accept(priced("subscription", STRIPE_PRICE_ID_SUBSCRIPTION))
             ELSE reject("STRIPE_PRICE_ID_SUBSCRIPTION not set")
        ELSE IF startswith(plan, PrefixCredits)
        THEN IF STRIPE_PRICE_ID_CREDITS # ""
             THEN accept(priced("payment", STRIPE_PRICE_ID_CREDITS))
             ELSE accept(adhoc(CREDITS_PACK_PRICE_USD * 100))
        ELSE IF STRIPE_PRICE_ID_ONE_TIME # ""
             THEN accept(priced("payment", STRIPE_PRICE_ID_ONE_TIME))
             ELSE accept(adhoc(2900))

\* Mutation of session_args: the ad-hoc pack amount is in dollars, not in cents.
session_args_dollars(plan) ==
    LET priced(mode, id) ==
            [NoCheckout EXCEPT !.mode = mode, !.item = "price", !.price = id,
                               !.quantity = 1]
        adhoc(amount) ==
            [NoCheckout EXCEPT !.mode = "payment", !.item = "price_data",
                               !.amount = amount, !.quantity = 1]
        accept(a) == [ok |-> TRUE, error |-> "", args |-> a]
        reject(e) == [ok |-> FALSE, error |-> e, args |-> NoCheckout]
    IN  IF plan = PlanSubscription
        THEN IF STRIPE_PRICE_ID_SUBSCRIPTION # ""
             THEN accept(priced("subscription", STRIPE_PRICE_ID_SUBSCRIPTION))
             ELSE reject("STRIPE_PRICE_ID_SUBSCRIPTION not set")
        ELSE IF startswith(plan, PrefixCredits)
        THEN IF STRIPE_PRICE_ID_CREDITS # ""
             THEN accept(priced("payment", STRIPE_PRICE_ID_CREDITS))
             ELSE accept(adhoc(CREDITS_PACK_PRICE_USD))
        ELSE IF plan = PlanOneTime
        THEN IF STRIPE_PRICE_ID_ONE_TIME # ""
             THEN accept(priced("payment", STRIPE_PRICE_ID_ONE_TIME))
             ELSE accept(adhoc(2900))
        ELSE reject("Unknown plan")

\* The session_args of a plan: [ok, error, args].
session_args(plan) ==
    LET priced(mode, id) ==
            [NoCheckout EXCEPT !.mode = mode, !.item = "price", !.price = id,
                               !.quantity = 1]
        adhoc(amount) ==
            [NoCheckout EXCEPT !.mode = "payment", !.item = "price_data",
                               !.amount = amount, !.quantity = 1]
        accept(a) == [ok |-> TRUE, error |-> "", args |-> a]
        reject(e) == [ok |-> FALSE, error |-> e, args |-> NoCheckout]
    IN  IF plan = PlanSubscription
        THEN IF STRIPE_PRICE_ID_SUBSCRIPTION # ""
             THEN accept(priced("subscription", STRIPE_PRICE_ID_SUBSCRIPTION))
             ELSE reject("STRIPE_PRICE_ID_SUBSCRIPTION not set")
        ELSE IF startswith(plan, PrefixCredits)
        THEN IF STRIPE_PRICE_ID_CREDITS # ""
             THEN accept(priced("payment", STRIPE_PRICE_ID_CREDITS))
             ELSE accept(adhoc(CREDITS_PACK_PRICE_USD * 100))
        ELSE IF plan = PlanOneTime
        THEN IF STRIPE_PRICE_ID_ONE_TIME # ""
             THEN accept(priced("payment", STRIPE_PRICE_ID_ONE_TIME))
             ELSE accept(adhoc(2900))
        ELSE reject("Unknown plan")

\* Mutation of create_checkout_session: the success URL carries the plan as submitted.
create_checkout_session_raw_echo(form_plan, outcome) ==
    LET base == [NoResp EXCEPT !.route = "checkout", !.form_plan = form_plan]
    IN  IF ~STRIPE_SECRET_KEY
        THEN [base EXCEPT !.status = 400, !.error = "Stripe is not configured"]
        ELSE LET plan == submitted_plan(form_plan)
                 a == session_args(plan)
             IN  IF ~a.ok
                 THEN [base EXCEPT !.status = 400, !.error = a.error]
                 ELSE LET c == [a.args EXCEPT !.called = TRUE, !.plan = form_plan]
                      IN  IF outcome = "session"
                          THEN [base EXCEPT !.status = 303, !.location = "checkout_url",
                                            !.checkout = c]
                          ELSE [base EXCEPT !.status = 500, !.error = "exception",
                                            !.checkout = c]

\* POST /create-checkout-session: the response; the session is not touched.
create_checkout_session(form_plan, outcome) ==
    LET base == [NoResp EXCEPT !.route = "checkout", !.form_plan = form_plan]
    IN  IF ~STRIPE_SECRET_KEY
        THEN [base EXCEPT !.status = 400, !.error = "Stripe is not configured"]
        ELSE LET plan == submitted_plan(form_plan)
                 a == session_args(plan)
             IN  IF ~a.ok
                 THEN [base EXCEPT !.status = 400, !.error = a.error]
                 ELSE LET c == [a.args EXCEPT !.called = TRUE, !.plan = plan]
                      IN  IF outcome = "session"
                          THEN [base EXCEPT !.status = 303, !.location = "checkout_url",
                                            !.checkout = c]
                          ELSE [base EXCEPT !.status = 500, !.error = "exception",
                                            !.checkout = c]

\* request.args.get("plan", "") on the success URL, which carries the plan
\* unquoted: the value ends at the first & or #, and + reads as a space.
RECURSIVE query_plan(_)
query_plan(raw) ==
    IF raw = << >> \/ Head(raw) \in {"&", "#"} THEN << >>
    ELSE <<IF Head(raw) = "+" THEN " " ELSE Head(raw)>> \o query_plan(Tail(raw))

\* -------------------------------------------------------------- webhook
\* POST /webhook: the response; the session is not touched.
\* Mutation of stripe_webhook: a call without a signature header is acknowledged.
stripe_webhook_skip_missing(sig, type) ==
    LET base == [NoResp EXCEPT !.route = "webhook", !.sig = sig]
    IN  IF ~STRIPE_WEBHOOK_SECRET \/ sig = "missing"
        THEN [base EXCEPT !.status = 200]
        ELSE IF sig # "valid"
        THEN [base EXCEPT !.status = 400, !.error = "Webhook error"]
        ELSE [base EXCEPT !.status = 200, !.verified = TRUE, !.body_ran = TRUE]

stripe_webhook(sig, type) ==
    LET base == [NoResp EXCEPT !.route = "webhook", !.sig = sig]
    IN  IF ~STRIPE_WEBHOOK_SECRET
        THEN [base EXCEPT !.status = 200]
        ELSE IF sig # "valid"
        THEN [base EXCEPT !.status = 400, !.error = "Webhook error"]
        ELSE [base EXCEPT !.status = 200, !.verified = TRUE, !.body_ran = TRUE]

\* ------------------------------------------------------- specification
\* A tab with no request under way: pc is idle, open (the request holds its copy
\* of the session, read from the cookie) or done (path is how its gate decided).
Idle == [pc |-> "idle", s |-> NewSession, path |-> "none"]

\* The payment configuration as the environment leaves it by default.
StripeUnset ==
    /\ STRIPE_SECRET_KEY = FALSE
    /\ STRIPE_WEBHOOK_SECRET = FALSE
    /\ STRIPE_PRICE_ID_SUBSCRIPTION = ""
    /\ STRIPE_PRICE_ID_CREDITS = ""
    /\ STRIPE_PRICE_ID_ONE_TIME = ""
    /\ CREDITS_PACK_PRICE_USD = 9

\* Every payment configuration.
StripeAny ==
    /\ STRIPE_SECRET_KEY \in BOOLEAN
    /\ STRIPE_WEBHOOK_SECRET \in BOOLEAN
    /\ STRIPE_PRICE_ID_SUBSCRIPTION \in SubscriptionPriceChoices
    /\ STRIPE_PRICE_ID_CREDITS \in CreditsPriceChoices
    /\ STRIPE_PRICE_ID_ONE_TIME \in OneTimePriceChoices
    /\ CREDITS_PACK_PRICE_USD \in PackPriceChoices

\* The price references all unset or all set, with and without the secrets.
StripeSome ==
    /\ STRIPE_SECRET_KEY \in BOOLEAN
    /\ STRIPE_WEBHOOK_SECRET \in BOOLEAN
    /\ \E set \in BOOLEAN :
          /\ STRIPE_PRICE_ID_SUBSCRIPTION = IF set THEN "price_sub" ELSE ""
          /\ STRIPE_PRICE_ID_CREDITS = IF set THEN "price_credits" ELSE ""
          /\ STRIPE_PRICE_ID_ONE_TIME = IF set THEN "price_once" ELSE ""
    /\ CREDITS_PACK_PRICE_USD \in PackPriceChoices

InitWith(limits, windows, packs, keys) ==
    /\ FREE_RUNS_PER_WINDOW \in limits
    /\ FREE_WINDOW_SECONDS \in windows
    /\ CREDITS_PER_PACK \in packs
    /\ GEMINI_API_KEY \in keys
    /\ session = NewSession
    /\ now = 0
    /\ resp = NoResp
    /\ freeLog = << >>
    /\ inflight = [i \in Tabs |-> Idle]

\* The ledger of a session that starts with balance 0; it counts when switched on.
LedgerOff == ledger = [on |-> FALSE, grants |-> 0, admits |-> 0]

LedgerOn == ledger = [on |-> TRUE, grants |-> 0, admits |-> 0]

Init ==
    /\ InitWith(LimitChoices, WindowChoices, PackChoices, BOOLEAN)
    /\ StripeUnset /\ LedgerOff

\* Serial requests with the ledger of grants and credit admissions kept.
InitLedger == InitWith({1}, {1}, PackChoices, {TRUE}) /\ StripeUnset /\ LedgerOn

\* A free-run limit above the number of timestamps the stored list keeps.
InitLarge == InitWith(LargeLimitChoices, {1}, {1}, {TRUE}) /\ StripeUnset /\ LedgerOff

\* One quota configuration, the payment configuration set or unset.
InitAll == InitWith({1}, {1}, {2}, {TRUE}) /\ StripeSome /\ LedgerOff

\* Every payment configuration, under a quota configuration without free runs.
InitCheckout == InitWith({0}, {1}, {2}, {TRUE}) /\ StripeAny /\ LedgerOff

\* The clock advances between requests.
Tick ==
    /\ now < MaxTime
    /\ now' = now + 1
    /\ resp' = NoResp
    /\ UNCHANGED <<config, session, freeLog, ledger, inflight>>

\* POST /upload; the clock may advance by d between the two reads of _now().
\* The completion outcome is drawn only for a file that reaches run_gemini.
Upload ==
    \E file \in Files, d \in 0..1 :
      \E ai \in IF file \in {"utf8", "latin1"} THEN AiOutcomes ELSE {"text"} :
        LET r == upload(session, now, now + d, file, ai)
        IN  /\ now + d <= MaxTime
            /\ r.resp.path = "free" => Len(freeLog) < MaxFree
            /\ session' = r.session
            /\ resp' = r.resp
            /\ now' = now + d
            /\ freeLog' = IF r.resp.path = "free"
                          THEN Append(freeLog, now + d) ELSE freeLog
            /\ ledger' = IF ledger.on /\ r.resp.path = "credit"
                         THEN [ledger EXCEPT !.admits = @ + 1] ELSE ledger
            /\ UNCHANGED <<config, inflight>>

Health ==
    LET r == health(session, now)
    IN  /\ session' = r.session
        /\ resp' = r.resp
        /\ UNCHANGED <<config, now, freeLog, ledger, inflight>>

\* GET /; the plan argument is read only under a success indicator.
Home ==
    \E success \in BOOLEAN :
      \E plan \in IF success THEN Plans ELSE {PlanEmpty} :
        LET r == home(session, now, success, plan)
        IN  /\ r.session.credits <= MaxCredits
            /\ (ledger.on /\ r.resp.grant = "credits") => ledger.grants < MaxGrants
            /\ session' = r.session
            /\ resp' = r.resp
            /\ ledger' = IF ledger.on /\ r.resp.grant = "credits"
                         THEN [ledger EXCEPT !.grants = @ + 1] ELSE ledger
            /\ UNCHANGED <<config, now, freeLog, inflight>>

\* POST /create-checkout-session; the outcome of the processor call is drawn
\* only for a request that reaches it.
Checkout ==
    \E form_plan \in CheckoutPlans :
      \E outcome \in IF STRIPE_SECRET_KEY /\ session_args(submitted_plan(form_plan)).ok
                      THEN StripeOutcomes ELSE {"session"} :
        /\ resp' = create_checkout_session(form_plan, outcome)
        /\ UNCHANGED <<config, session, now, freeLog, ledger, inflight>>

\* POST /webhook
Webhook ==
    \E sig \in Signatures, type \in EventTypes :
        /\ resp' = stripe_webhook(sig, type)
        /\ UNCHANGED <<config, session, now, freeLog, ledger, inflight>>

Next == Tick \/ Upload \/ Health \/ Home

NextAll == Next \/ Checkout \/ Webhook

\* A tab sends POST /upload: the request opens its own copy of the session
\* from the cookie the browser holds at that moment.
Begin ==
    \E i \in Tabs :
        /\ inflight[i].pc # "open"
        /\ inflight' = [inflight EXCEPT ![i] = [pc |-> "open", s |-> session,
                                                path |-> "none"]]
        /\ resp' = NoResp
        /\ UNCHANGED <<config, session, now, freeLog, ledger>>

\* The request of a tab runs upload on its copy and answers; the browser keeps
\* the session of the response when the handler assigned to it.
Finish ==
    \E i \in Tabs, file \in Files, d \in 0..1 :
      \E ai \in IF file \in {"utf8", "latin1"} THEN AiOutcomes ELSE {"text"} :
        LET r == upload(inflight[i].s, now, now + d, file, ai)
        IN  /\ inflight[i].pc = "open"
            /\ now + d <= MaxTime
            /\ r.resp.path = "free" => Len(freeLog) < MaxFree
            /\ session' = IF r.resp.path = "pro" THEN session ELSE r.session
            /\ resp' = r.resp
            /\ now' = now + d
            /\ freeLog' = IF r.resp.path = "free"
                          THEN Append(freeLog, now + d) ELSE freeLog
            /\ inflight' = [inflight EXCEPT ![i].pc = "done", ![i].path = r.resp.path]
            /\ UNCHANGED <<config, ledger>>

NextConc == Tick \/ Home \/ Begin \/ Finish

Spec == Init /\ [][Next]_vars

SpecLarge == InitLarge /\ [][Next]_vars

SpecLedger == InitLedger /\ [][Next]_vars

\* Every route.
SpecAll == InitAll /\ [][NextAll]_vars

\* Uploads of two tabs of one session under way at the same time.
InitConc == InitWith({0}, {1}, {1, 2}, {TRUE}) /\ StripeUnset /\ LedgerOff

SpecConc == InitConc /\ [][NextConc]_vars

\* Every route, under every payment configuration.
SpecCheckout == InitCheckout /\ [][NextAll]_vars

\* ============================================================== claims
\* Stated over a step's two states: resp' names the request the step handled
\* (Tick clears it), the unprimed variables are the session and clock it met.

UploadStep == resp'.route = "upload"

Admitted(r) == r.path \in {"pro", "credit", "free"}

\* The number of stored timestamps with value >= t - FREE_WINDOW_SECONDS.
WindowedCount(ts, t) ==
    Cardinality({i \in DOMAIN ts : ts[i] >= t - FREE_WINDOW_SECONDS})

\* The stored list without its stale entries.
Pruned(ts, t) == SelectSeq(ts, LAMBDA x : x >= t - FREE_WINDOW_SECONDS)

Last(ts) == ts[Len(ts)]

\* ------------------------------------------------------------------ C1
\* C1: the /upload gate admits the request if and only if the session is pro,
\* or its credit balance is > 0, or fewer than FREE_RUNS_PER_WINDOW stored
\* timestamps have value >= now - FREE_WINDOW_SECONDS; otherwise it denies.
C1_GateAdmitsIff ==
    [][UploadStep =>
        /\ Admitted(resp') <=>
              \/ session.pro
              \/ session.credits > 0
              \/ WindowedCount(session.runs, now) < FREE_RUNS_PER_WINDOW
        /\ ~Admitted(resp') <=> resp'.path = "denied"]_vars

\* A denial met with two in-window timestamps stored and one stale one gone.
C1_Witness ==
    /\ resp.route = "upload"
    /\ resp.path = "denied"
    /\ FREE_RUNS_PER_WINDOW = 2
    /\ Len(session.runs) = 2
    /\ Len(freeLog) > 2

\* ------------------------------------------------------------------ C2
\* C2: in every window of FREE_WINDOW_SECONDS seconds a session is granted at
\* most FREE_RUNS_PER_WINDOW free admissions, for every configured
\* FREE_RUNS_PER_WINDOW, those above the length the stored list is trimmed to
\* included.
C2_FreeAdmissionsBounded ==
    \A t0 \in 0..MaxTime :
        CountIn(freeLog, t0, t0 + FREE_WINDOW_SECONDS) <= FREE_RUNS_PER_WINDOW

\* ------------------------------------------------------------------ C3
\* C3: for a pro session an /upload is always admitted and the gate leaves the
\* credit balance and the stored timestamp list unchanged.
C3_ProAdmittedNoMutation ==
    [][(UploadStep /\ session.pro) =>
        /\ Admitted(resp')
        /\ session'.credits = session.credits
        /\ session'.runs = session.runs
        /\ session'.pro]_vars

\* A pro upload that went through with credits and timestamps in the session.
C3_Witness ==
    /\ resp.route = "upload"
    /\ resp.path = "pro"
    /\ resp.status = 200
    /\ session.credits > 0
    /\ Len(session.runs) > 0
    /\ Last(session.runs) < now - FREE_WINDOW_SECONDS

\* ------------------------------------------------------------------ C4
\* C4: for a non-pro session with balance N > 0 and no grant in between, each
\* /upload is admitted and takes exactly 1 off the balance (so N of them bring
\* it to 0), requests that are no grant leave it alone, and at balance 0 the
\* request is decided by the free-window logic.
C4_CreditsCountDown ==
    [][/\ (UploadStep /\ ~session.pro /\ session.credits > 0) =>
            /\ resp'.path = "credit"
            /\ session'.credits = session.credits - 1
            /\ ~session'.pro
       /\ (UploadStep /\ ~session.pro /\ session.credits = 0) =>
            /\ session'.credits = 0
            /\ resp'.path = IF WindowedCount(session.runs, now) < FREE_RUNS_PER_WINDOW
                            THEN "free" ELSE "denied"
       /\ (\/ resp'.route \in {"none", "health"}
           \/ resp'.route = "home" /\ resp'.grant \in {"none", "noop"}) =>
            /\ session'.credits = session.credits
            /\ session'.pro = session.pro]_vars

\* The second of two credits spent: a pack of 2 counted down to 0.
C4_Witness ==
    /\ CREDITS_PER_PACK = 2
    /\ resp.route = "upload"
    /\ resp.path = "credit"
    /\ ~session.pro
    /\ session.credits = 0

\* ------------------------------------------------------------------ C5
\* C5: credits are spent before the free allowance: with balance > 0 a non-pro
\* /upload consumes one credit and leaves the stored timestamp list as it was
\* (nothing appended, nothing pruned), free quota left or not.
C5_CreditsBeforeFree ==
    [][(UploadStep /\ ~session.pro /\ session.credits > 0) =>
        /\ resp'.path = "credit"
        /\ session'.credits = session.credits - 1
        /\ session'.runs = session.runs
        /\ freeLog' = freeLog]_vars

\* A credit spent while free quota was left and a stale timestamp stayed stored.
C5_Witness ==
    /\ resp.route = "upload"
    /\ resp.path = "credit"
    /\ Len(session.runs) = 1
    /\ session.runs[1] < now - FREE_WINDOW_SECONDS
    /\ FREE_RUNS_PER_WINDOW = 2

\* ------------------------------------------------------------------ C6
\* C6: with FREE_RUNS_PER_WINDOW = 1, no credits and not pro, after a free
\* admission at t every /upload at t' with t <= t' <= t + FREE_WINDOW_SECONDS
\* is denied, and an /upload at t' > t + FREE_WINDOW_SECONDS is admitted and
\* leaves the stored list equal to [t'].
C6_SingleRunWindow ==
    [][(/\ UploadStep
        /\ FREE_RUNS_PER_WINDOW = 1
        /\ ~session.pro
        /\ session.credits = 0
        /\ freeLog # << >>) =>
        LET t == Last(freeLog)
        IN  /\ t <= now
            /\ now <= t + FREE_WINDOW_SECONDS => resp'.path = "denied"
            /\ now > t + FREE_WINDOW_SECONDS =>
                 /\ resp'.path = "free"
                 /\ session'.runs = <<now'>>]_vars

\* The second free admission, after the window of the first had passed.
C6_Witness ==
    /\ FREE_RUNS_PER_WINDOW = 1
    /\ FREE_WINDOW_SECONDS = 1
    /\ resp.route = "upload"
    /\ resp.path = "free"
    /\ Len(freeLog) = 2
    /\ session.runs = <<now>>

\* ------------------------------------------------------------------ C7
\* C7: the credit balance is >= 0 in every reachable state, for every
\* configured CREDITS_PER_PACK, zero and negative ones included.
C7_CreditsNonNegative == session.credits >= 0

\* A credits grant applied under a negative pack size.
C7_Witness ==
    /\ CREDITS_PER_PACK < 0
    /\ resp.route = "home"
    /\ resp.grant = "credits"
    /\ session.credits = 0

\* ------------------------------------------------------------------ C8
\* C8: an /upload that does not reach the file-decode and text-completion
\* steps consumes neither a credit nor a free run.
C8_NoConsumptionWithoutWork ==
    [][(UploadStep /\ ~resp'.decoded) =>
        /\ session'.credits = session.credits
        /\ session'.runs \in {session.runs, Pruned(session.runs, now)}
        /\ freeLog' = freeLog]_vars

\* ------------------------------------------------------------------ C9
\* C9: an admitted /upload that fails in file decoding (400) or whose
\* text-completion call errors keeps what the gate consumed: the credit stays
\* spent, the appended timestamp stays stored.
C9_NoRefundOnFailure ==
    [][(/\ UploadStep
        /\ resp'.decoded
        /\ resp'.status = 400 \/ resp'.output = "Gemini error") =>
        /\ (~session.pro /\ session.credits > 0) =>
              /\ session'.credits = session.credits - 1
              /\ session'.runs = session.runs
        /\ (~session.pro /\ session.credits = 0) =>
              /\ session'.credits = 0
              /\ session'.runs =
                    LastK(Append(Pruned(session.runs, now), now'), MaxStoredRuns)
              /\ freeLog' = Append(freeLog, now')]_vars

\* A free run that stayed consumed after the decoder rejected the file.
C9_Witness ==
    /\ resp.route = "upload"
    /\ resp.status = 400
    /\ resp.path = "free"
    /\ session.runs # << >>
    /\ Last(session.runs) = now

\* ----------------------------------------------------------------- C10
\* C10: a denied /upload (non-pro, zero credits, windowed count at the limit)
\* is answered with a redirect to the landing page carrying the limit flag,
\* invokes neither the file decoder nor the text-completion service, leaves
\* pro and the credit balance unchanged and appends no timestamp; only stale
\* timestamps are pruned.
C10_DeniedIsRedirect ==
    [][(/\ UploadStep
        /\ ~session.pro
        /\ session.credits = 0
        /\ WindowedCount(session.runs, now) >= FREE_RUNS_PER_WINDOW) =>
        /\ resp'.status = 302
        /\ resp'.location = "home?limit=true"
        /\ ~resp'.decoded
        /\ ~resp'.ai_called
        /\ session'.pro = session.pro
        /\ session'.credits = session.credits
        /\ session'.runs = Pruned(session.runs, now)
        /\ freeLog' = freeLog]_vars

\* A denial answered by the limit redirect with a timestamp still in the window.
C10_Witness ==
    /\ resp.route = "upload"
    /\ resp.status = 302
    /\ resp.location = "home?limit=true"
    /\ FREE_RUNS_PER_WINDOW = 1
    /\ Len(session.runs) = 1

\* ----------------------------------------------------------------- C11
CheckoutResp == resp.route = "checkout"

Recognized(p) == p \in {PlanSubscription, PlanOneTime} \/ startswith(p, PrefixCredits)

RejectedUnknown(r) ==
    /\ r.status = 400
    /\ r.error = "Unknown plan"
    /\ ~r.checkout.called

\* C11 as claimed: with the payment credential configured, every submitted plan
\* identifier that is not exactly "subscription", not exactly "one_time" and
\* does not start with "credits" (the empty or missing one included) is
\* rejected 400 as unknown and no checkout session is created for it.
C11_UnknownPlanRejected_Original ==
    (CheckoutResp /\ STRIPE_SECRET_KEY /\ ~Recognized(resp.form_plan)) =>
        RejectedUnknown(resp)

\* C11 amended: the identifier is stripped of surrounding whitespace first; a
\* non-empty stripped identifier that is not recognized is rejected 400 as
\* unknown with no checkout session created, and an empty, blank or missing
\* identifier is handled as "subscription", never as unknown.
C11_UnknownPlanRejected ==
    (CheckoutResp /\ STRIPE_SECRET_KEY) =>
        LET p == strip(resp.form_plan)
        IN  /\ (p # << >> /\ ~Recognized(p)) => RejectedUnknown(resp)
            /\ p = << >> =>
                 /\ resp.error # "Unknown plan"
                 /\ IF STRIPE_PRICE_ID_SUBSCRIPTION = ""
                    THEN resp.status = 400 /\ ~resp.checkout.called
                    ELSE resp.checkout.called /\ resp.checkout.mode = "subscription"

\* An identifier with trailing whitespace and an unknown word, rejected.
C11_Witness ==
    /\ CheckoutResp
    /\ STRIPE_SECRET_KEY
    /\ resp.form_plan = PlanPaddedBogus
    /\ RejectedUnknown(resp)

\* ----------------------------------------------------------------- C12
\* The plan the resolver works on: stripped, and "subscription" when empty.
Normalized(form_plan) ==
    IF strip(form_plan) = << >> THEN PlanSubscription ELSE strip(form_plan)

PricedItem(c, mode, id) ==
    /\ c.called
    /\ c.mode = mode
    /\ c.item = "price"
    /\ c.price = id
    /\ c.quantity = 1

AdhocItem(c, amount) ==
    /\ c.called
    /\ c.mode = "payment"
    /\ c.item = "price_data"
    /\ c.amount = amount
    /\ c.quantity = 1

C13_ModeAndEcho_Original ==
    (CheckoutResp /\ resp.checkout.called) =>
        /\ resp.checkout.mode =
              IF resp.form_plan = PlanSubscription THEN "subscription" ELSE "payment"
        /\ resp.checkout.plan = resp.form_plan

\* C13 amended: the plan is the submitted identifier stripped, "subscription"
\* when that is empty; the mode is subscription exactly when this plan is
\* "subscription" and payment otherwise; the success URL carries this plan, and
\* read back from the URL it takes the matching grant: pro for subscription and
\* one_time, the credit pack for a credits plan.
C13_ModeAndEcho ==
    (CheckoutResp /\ resp.checkout.called) =>
        LET p == Normalized(resp.form_plan)
        IN  /\ resp.checkout.mode =
                  IF p = PlanSubscription THEN "subscription" ELSE "payment"
            /\ resp.checkout.plan = p
            /\ grant_kind(query_plan(resp.checkout.plan)) =
                  IF p \in {PlanSubscription, PlanOneTime} THEN "pro" ELSE "credits"

\* A padded "one_time" accepted: the URL carries "one_time", not what was sent.
C13_Witness ==
    /\ CheckoutResp
    /\ resp.status = 303
    /\ resp.form_plan = PlanPaddedOneTime
    /\ resp.checkout.plan = PlanOneTime
    /\ resp.checkout.mode = "payment"

\* ----------------------------------------------------------------- C14
\* The session after k success redirects GET /?success=true&plan=<plan> at time t.
RECURSIVE Replayed(_, _, _, _)
Replayed(s, t, plan, k) ==
    IF k = 0 THEN s ELSE Replayed(home(s, t, TRUE, plan).session, t, plan, k - 1)

\* C14 as claimed: "subscription" and "one_time" set pro and leave the credits,
\* k >= 1 applications giving what one gives; a plan starting with "credits"
\* adds CREDITS_PER_PACK on every application, k replays adding
\* k * CREDITS_PER_PACK; any other plan changes nothing.
C14_Grant_Original ==
    \A plan \in Plans, k \in 1..MaxReplays :
        LET s1 == Replayed(session, now, plan, 1)
            sk == Replayed(session, now, plan, k)
        IN  /\ plan \in {PlanSubscription, PlanOneTime} =>
                 /\ s1.pro
                 /\ s1.credits = session.credits
                 /\ sk = s1
            /\ startswith(plan, PrefixCredits) =>
                 /\ sk.credits = session.credits + k * CREDITS_PER_PACK
                 /\ sk.pro = session.pro
            /\ (plan \notin {PlanSubscription, PlanOneTime}
                    /\ ~startswith(plan, PrefixCredits)) =>
                 /\ sk.pro = session.pro
                 /\ sk.credits = session.credits

\* C14 amended: as claimed, except that a plan starting with "credits" adds
\* max(0, CREDITS_PER_PACK) on every application, k replays adding
\* k * max(0, CREDITS_PER_PACK): a zero or negative pack size adds nothing.
C14_Grant ==
    \A plan \in Plans, k \in 1..MaxReplays :
        LET s1 == Replayed(session, now, plan, 1)
            sk == Replayed(session, now, plan, k)
            pack == IF CREDITS_PER_PACK > 0 THEN CREDITS_PER_PACK ELSE 0
        IN  /\ plan \in {PlanSubscription, PlanOneTime} =>
                 /\ s1.pro
                 /\ s1.credits = session.credits
                 /\ sk = s1
            /\ startswith(plan, PrefixCredits) =>
                 /\ sk.credits = session.credits + k * pack
                 /\ sk.pro = session.pro
            /\ (plan \notin {PlanSubscription, PlanOneTime}
                    /\ ~startswith(plan, PrefixCredits)) =>
                 /\ sk.pro = session.pro
                 /\ sk.credits = session.credits
            /\ sk.runs = Pruned(session.runs, now)

\* A credit pack granted to a session that was not pro and had a timestamp stored.
C14_Witness ==
    /\ resp.route = "home"
    /\ resp.grant = "credits"
    /\ CREDITS_PER_PACK = 2
    /\ session.credits = 2
    /\ ~session.pro
    /\ Len(session.runs) = 1

\* ----------------------------------------------------------------- C15
\* C15: once pro is true, no /upload, GET /, /health, /create-checkout-session
\* or /webhook request sets it back to false, and every later /upload is
\* admitted.
C15_ProPermanent ==
    [][session.pro =>
        /\ session'.pro
        /\ UploadStep => Admitted(resp')]_vars

\* A pro session, credits bought afterwards, its upload admitted as pro.
C15_Witness ==
    /\ session.pro
    /\ session.credits = 2
    /\ resp.route = "upload"
    /\ resp.path = "pro"
    /\ Len(session.runs) = 1

\* ----------------------------------------------------------------- C16
\* C16: two /upload requests of one non-pro session, each reading the session
\* before the other writes it back, can both see a balance > 0 and both be
\* admitted and decrement (the witness: both admitted at balance 1); in no
\* interleaving is a stored balance negative, and a request is admitted on the
\* credit path only when the balance it read was > 0.
C16_NeverNegative ==
    /\ session.credits >= 0
    /\ \A i \in Tabs :
          /\ inflight[i].s.credits >= 0
          /\ (inflight[i].pc = "done" /\ inflight[i].path = "credit") =>
                /\ inflight[i].s.credits > 0
                /\ ~inflight[i].s.pro

\* Both tabs read balance 1, both were admitted on the credit path, and the
\* browser holds balance 0.
C16_Witness ==
    /\ \A i \in Tabs :
          /\ inflight[i].pc = "done"
          /\ inflight[i].path = "credit"
          /\ inflight[i].s.credits = 1
          /\ ~inflight[i].s.pro
    /\ session.credits = 0

\* ----------------------------------------------------------------- C17
\* C17 as stated: every /webhook call whose signature does not verify is
\* answered 400 without running the handler body, in every configuration, and
\* a call is answered 200 only after its signature was verified.
C17_WebhookRejects_Original ==
    resp.route = "webhook" =>
        /\ resp.sig # "valid" => (resp.status = 400 /\ ~resp.body_ran)
        /\ resp.status = 200 => resp.verified

\* C17 (amended): with a webhook signing secret configured, a call whose
\* signature does not verify is answered 400 and the handler body does not
\* run, and 200 is answered only after verification; with no signing secret
\* configured every call is answered 200 without any verification and without
\* running the handler body.
C17_WebhookRejects ==
    resp.route = "webhook" =>
        IF STRIPE_WEBHOOK_SECRET
        THEN /\ resp.sig # "valid" =>
                    (resp.status = 400 /\ ~resp.body_ran /\ ~resp.verified)
             /\ resp.status = 200 => (resp.verified /\ resp.sig = "valid")
             /\ resp.status \in {200, 400}
        ELSE resp.status = 200 /\ ~resp.verified /\ ~resp.body_ran

\* A call without a signature header reached a configured endpoint: 400.
C17_Witness ==
    /\ STRIPE_WEBHOOK_SECRET
    /\ resp.route = "webhook" /\ resp.sig = "missing"
    /\ resp.status = 400 /\ ~resp.body_ran

\* ----------------------------------------------------------------- C18
\* C18: the credit balance decreases only in an admitted /upload of a non-pro
\* session (by one, on the credit path) and increases only in a GET / with a
\* success indicator and a credits plan; pro changes only in a GET / with a
\* success indicator and plan subscription or one_time; /health,
\* /create-checkout-session, /webhook and GET / without a success indicator
\* leave pro and the credit balance as they were.
C18_EntitlementSources ==
    [][/\ session'.credits < session.credits =>
            /\ resp'.route = "upload" /\ resp'.path = "credit"
            /\ ~session.pro
            /\ session'.credits = session.credits - 1
       /\ session'.credits > session.credits =>
            /\ resp'.route = "home" /\ resp'.grant = "credits"
       /\ session'.pro # session.pro =>
            /\ resp'.route = "home" /\ resp'.grant = "pro"
            /\ session'.pro
       /\ (\/ resp'.route \in {"none", "health", "checkout", "webhook"}
           \/ (resp'.route = "home" /\ resp'.grant = "none")) =>
            /\ session'.pro = session.pro
            /\ session'.credits = session.credits]_vars

\* A session granted a pack and pro, after /health reported both.
C18_Witness ==
    /\ resp.route = "health" /\ resp.pro /\ resp.credits = 2
    /\ session.pro /\ session.credits = 2

\* ----------------------------------------------------------------- C19
\* ts without the entries at the positions in D.
RECURSIVE Without(_, _, _)
Without(ts, D, i) ==
    IF i > Len(ts) THEN << >>
    ELSE (IF i \in D THEN << >> ELSE <<ts[i]>>) \o Without(ts, D, i + 1)

\* The sessions that differ from s only in lacking some of the timestamps
\* that are stale at time t: what s can be after read-only requests were
\* inserted at earlier points of the sequence.
StaleDrops(s, t) ==
    {[s EXCEPT !.runs = Without(s.runs, D, 1)] :
        D \in SUBSET {i \in DOMAIN s.runs : s.runs[i] < t - FREE_WINDOW_SECONDS}}

\* /health and GET / without a success indicator only drop stale timestamps,
\* and a session that lacks stale timestamps gets, at every later time, the same
\* gate decision, the same balance and the same grants, and again differs only
\* in stale timestamps afterwards.
ReadOnlyInvisible ==
    /\ health(session, now).session \in StaleDrops(session, now)
    /\ home(session, now, FALSE, PlanEmpty).session \in StaleDrops(session, now)
    /\ \A b \in StaleDrops(session, now) :
         \A t \in now..MaxTime :
            /\ \A tr \in {t, t + 1} :
                 LET ga == upload_gate(session, t, tr)
                     gb == upload_gate(b, t, tr)
                 IN  /\ ga.path = gb.path
                     /\ ga.session.credits = gb.session.credits
                     /\ ga.session.pro = gb.session.pro
                     /\ gb.session \in StaleDrops(ga.session, t)
            /\ \A plan \in {PlanSubscription, PlanCredits10, PlanBogus} :
                 home(b, t, TRUE, plan).session
                     \in StaleDrops(home(session, t, TRUE, plan).session, t)
            /\ health(b, t).session \in StaleDrops(health(session, t).session, t)
            /\ health(b, t).resp = health(session, t).resp

\* The free runs /health reports for the session as it is now, and what they
\* say about the gate.
HealthReports ==
    LET remaining == health(session, now).resp.remaining
    IN  /\ remaining =
               max(0, FREE_RUNS_PER_WINDOW - WindowedCount(session.runs, now))
        /\ remaining > 0 <=>
               upload_gate([session EXCEPT !.pro = FALSE, !.credits = 0],
                           now, now).path = "free"
        /\ resp.route = "health" => resp.remaining = remaining

\* C19: /health and GET / without a success indicator, inserted anywhere in a
\* request sequence under a non-decreasing clock, change only which stale
\* timestamps are stored, never the admit/deny decision or the credit balance
\* of a later /upload; and /health reports remaining_free_runs =
\* max(0, FREE_RUNS_PER_WINDOW - windowed count), which is > 0 exactly when a
\* non-pro zero-credit /upload at the same time would be admitted.
C19_ReadOnlyNoInfluence ==
    /\ ReadOnlyInvisible
    /\ HealthReports

\* /health found every recorded free run stale, dropped it and reported a free
\* run as available.
C19_Witness ==
    /\ resp.route = "health" /\ resp.remaining = 1
    /\ FREE_RUNS_PER_WINDOW = 1
    /\ Len(freeLog) >= 1 /\ session.runs = << >>
    /\ ~session.pro /\ session.credits = 0

\* ----------------------------------------------------------------- C20
\* C20: after any sequence of serial requests on a session that starts with
\* balance 0, the credit balance is max(0, CREDITS_PER_PACK) times the number of
\* credit grants applied minus the number of /upload requests admitted on the
\* credit path, and every stored free-run timestamp is a time at which a free
\* admission was recorded.
C20_CreditConservation ==
    /\ session.credits =
           max(0, CREDITS_PER_PACK) * ledger.grants - ledger.admits
    /\ \A i \in DOMAIN session.runs :
           \E j \in DOMAIN freeLog : freeLog[j] = session.runs[i]

\* Two packs granted, three credits spent, one credit and a free-run timestamp left.
C20_Witness ==
    /\ ledger.grants = 2 /\ ledger.admits = 3
    /\ session.credits = 1
    /\ session.runs # << >>

====
